---- MODULE Spec2Model ----
(***************************************************************************)
(* Model of engines/is1200_civil.py: the IS-1200 style measurement engine. *)
(*                                                                         *)
(* Numbers.  The engine computes on Python floats.  The model computes on  *)
(* exact rationals <<n, d>> in lowest terms (d > 0); round() is modelled   *)
(* as round-half-to-even on the exact value.  Scalar inputs are written in *)
(* hundredths (the integer 150 stands for 1.50), rounded outputs are       *)
(* integers in thousandths (the integer 22 stands for 0.022).              *)
(***************************************************************************)
EXTENDS Integers, Sequences, FiniteSets, TLC

\* ------------------------------------------------------------------ bounds

\* Longest opening / cutout list a caller passes.
MaxOpenings == 2

\* ---------------------------------------------------------- float arithmetic

RECURSIVE GCD(_, _)
GCD(a, b) == IF b = 0 THEN a ELSE GCD(b, a % b)

Abs(x) == IF x < 0 THEN -x ELSE x

\* The rational n/d (d > 0) in lowest terms.
Q(n, d) ==
    LET g == GCD(Abs(n), d)
    IN  IF n = 0 THEN <<0, 1>> ELSE <<n \div g, d \div g>>

\* A scalar input written in hundredths.
Hundredths(x) == Q(x, 100)
\* A rounded output (thousandths) read back as a number.
Thousandths(x) == Q(x, 1000)
\* A Python int read as a number.
Whole(k) == Q(k, 1)

\* Factors are cancelled crosswise before multiplying, so that the model's
\* integers stay small.
QMul(a, b) ==
    LET g1 == IF a[1] = 0 THEN 1 ELSE GCD(Abs(a[1]), b[2])
        g2 == IF b[1] = 0 THEN 1 ELSE GCD(Abs(b[1]), a[2])
    IN  Q((a[1] \div g1) * (b[1] \div g2), (a[2] \div g2) * (b[2] \div g1))
QAdd(a, b) ==
    LET g == GCD(a[2], b[2])
    IN  Q(a[1] * (b[2] \div g) + b[1] * (a[2] \div g), (a[2] \div g) * b[2])
QSub(a, b) == QAdd(a, <<-b[1], b[2]>>)
\* a / b for b > 0.
QDiv(a, b) == QMul(a, <<b[2], b[1]>>)
QLeq(a, b) == a[1] * b[2] <= b[1] * a[2]
QLt(a, b) == a[1] * b[2] < b[1] * a[2]
QZero == Whole(0)

\* max(a, b) on floats.
QMax(a, b) == IF QLt(a, b) THEN b ELSE a

\* n/d rounded to the nearest integer, ties to the even one (d > 0;
\* \div is floor division, so this is symmetric for negative n).
RoundHalfEven(n, d) ==
    LET q == n \div d
        r == n % d
    IN  IF 2 * r < d THEN q
        ELSE IF 2 * r > d THEN q + 1
        ELSE IF q % 2 = 0 THEN q ELSE q + 1

\* round(value, places) for places in 0..3, as an integer of thousandths.
round(value, places) ==
    LET up   == 10 ^ places
        down == 10 ^ (3 - places)
        g    == GCD(up, value[2])
    IN  RoundHalfEven(value[1] * (up \div g), value[2] \div g) * down

\* int(x) of a scalar written in hundredths: truncation toward zero.
int(x) == IF x >= 0 THEN x \div 100 ELSE -((-x) \div 100)

\* max(x, 0.0) left out: the argument used as given.
max0_missing(x) == x

\* max(x, 0.0) of a scalar written in hundredths.
max0(x) == IF x > 0 THEN x ELSE 0

\* ------------------------------------------------------------ MeasureResult

\* MeasureResult(gross, deductions, additions): the unrounded quantities
\* (unit and meta are stored and never read).
MeasureResult(gross, deductions, additions) ==
    [gross |-> gross, deductions |-> deductions, additions |-> additions]

\* to_dict as it would be without the clamp of net at zero.
to_dict_unclamped(mr, round_to) ==
    LET g == round(mr.gross, round_to)
        d == round(mr.deductions, round_to)
        a == round(mr.additions, round_to)
        n == round(Thousandths(g - d + a), round_to)
    IN  [gross |-> g, deductions |-> d, additions |-> a, net |-> n]

\* MeasureResult.to_dict(round_to): the record of rounded values.
to_dict(mr, round_to) ==
    LET g == round(mr.gross, round_to)
        d == round(mr.deductions, round_to)
        a == round(mr.additions, round_to)
        n == round(QMax(Thousandths(g - d + a), QZero), round_to)
    IN  [gross |-> g, deductions |-> d, additions |-> a, net |-> n]

\* What a call that ended in an exception leaves instead of a record.
Raised == [raised |-> TRUE]
IsRaised(r) == "raised" \in DOMAIN r

\* unit.lower().strip() on the unit tags the model passes.
LowerStrip(unit) ==
    CASE unit = " Sq.M " -> "sq.m"
      [] unit = "CUM"    -> "cum"
      [] unit = " KG"    -> "kg"
      [] OTHER           -> unit

\* The decimal places _round_for_unit rounds to.
UnitPlaces(unit) ==
    LET u == LowerStrip(unit)
    IN  IF u \in {"m", "rm", "rmt"} THEN 2
        ELSE IF u \in {"sqm", "m2", "sq.m", "sq.m."} THEN 2
        ELSE IF u \in {"cum", "m3", "cu.m", "cu.m."} THEN 3
        ELSE IF u \in {"kg", "kilogram", "kilograms"} THEN 2
        ELSE 3

_round_for_unit(value, unit) == round(value, UnitPlaces(unit))

\* ------------------------------------------------------------ normalisation

\* An opening field as the caller wrote it: a number, a numeric string, a
\* value float() rejects (None, "abc"), or the key left out.
Num(x) == [t |-> "num", v |-> x]
NumStr(x) == [t |-> "numstr", v |-> x]
Junk == [t |-> "junk", v |-> 0]
Absent == [t |-> "absent", v |-> 0]

\* An entry of the caller's list: a dict with the keys it has, or anything else.
Dict(w, h, n) == [isdict |-> TRUE, w |-> w, h |-> h, n |-> n]
NotADict == [isdict |-> FALSE, w |-> Absent, h |-> Absent, n |-> Absent]

\* o.get(key, default) followed by float(): the number in hundredths, or
\* the exception float() raises.
FloatOfGet(field, default) ==
    CASE field.t = "absent" -> [raised |-> FALSE, v |-> default]
      [] field.t = "num"    -> [raised |-> FALSE, v |-> field.v]
      [] field.t = "numstr" -> [raised |-> FALSE, v |-> field.v]
      [] OTHER              -> [raised |-> TRUE, v |-> 0]

\* One pass of the loop body of _normalise_openings on entry o with the
\* list built so far.
NormaliseStep(acc, o) ==
    IF acc.raised THEN acc
    ELSE IF ~o.isdict THEN acc
    ELSE LET w == FloatOfGet(o.w, 0)
             h == FloatOfGet(o.h, 0)
             n == FloatOfGet(o.n, 100)
         IN  IF w.raised \/ h.raised \/ n.raised
                 THEN [raised |-> TRUE, out |-> <<>>]
             ELSE IF w.v <= 0 \/ h.v <= 0 \/ n.v <= 0 THEN acc
             ELSE [raised |-> FALSE,
                   out |-> Append(acc.out, [w |-> w.v, h |-> h.v, n |-> n.v])]

RECURSIVE NormaliseFrom(_, _, _)
NormaliseFrom(openings, i, acc) ==
    IF i > Len(openings) THEN acc
    ELSE NormaliseFrom(openings, i + 1, NormaliseStep(acc, openings[i]))

\* The caller's list rewritten in place with the normalised entries.
ListAfterNormalise_inplace(openings) ==
    LET norm == NormaliseFrom(openings, 1, [raised |-> FALSE, out |-> <<>>])
    IN  IF norm.raised THEN openings
        ELSE [i \in 1..Len(norm.out) |->
                 Dict(Num(norm.out[i].w), Num(norm.out[i].h), Num(norm.out[i].n))]

\* What the caller's list holds once _normalise_openings has run over it:
\* the loop only reads o and appends fresh dicts to its own out.
ListAfterNormalise(openings) == openings

\* _normalise_openings(openings): the normalised list, or raised.
\* None and the empty list are both the empty sequence here.
_normalise_openings(openings) ==
    IF openings = <<>> THEN [raised |-> FALSE, out |-> <<>>]
    ELSE NormaliseFrom(openings, 1, [raised |-> FALSE, out |-> <<>>])

\* ------------------------------------------------------------ formula layer
\* Every scalar argument is written in hundredths.

\* IS1200Engine.volume: the unrounded gross and deductions.
volume_mr(L, B, D, deductions) ==
    LET gross == QMul(QMul(Hundredths(max0(L)), Hundredths(max0(B))),
                      Hundredths(max0(D)))
    IN  MeasureResult(gross, Hundredths(max0(deductions)), QZero)

volume(L, B, D, deductions, unit) ==
    LET mr      == volume_mr(L, B, D, deductions)
        gross_r == _round_for_unit(mr.gross, unit)
        ded_r   == _round_for_unit(mr.deductions, unit)
        net_r   == _round_for_unit(
                       QMax(Thousandths(gross_r - ded_r), QZero), unit)
        pct     == IF gross_r > 0
                       THEN round(QMul(QDiv(Thousandths(ded_r),
                                            Thousandths(gross_r)),
                                       Whole(100)), 2)
                       ELSE 0
    IN  [gross |-> gross_r, deductions |-> ded_r, additions |-> 0,
         net |-> net_r, pct |-> pct]

\* The branch taken for every non-zero slope instead of every positive one.
SlopeGiven_nonzero(side_slope_h_over_v) == side_slope_h_over_v # 0

\* The branch condition of trench_excavation and pit_excavation.
SlopeGiven(side_slope_h_over_v) == side_slope_h_over_v > 0

trench_excavation_mr(length, breadth_bottom, depth, side_slope_h_over_v, deductions) ==
    LET l  == Hundredths(max0(length))
        bb == Hundredths(max0(breadth_bottom))
        d  == Hundredths(max0(depth))
        top_b == QAdd(bb, QMul(QMul(Whole(2), Hundredths(side_slope_h_over_v)), d))
        avg_b == QDiv(QAdd(bb, top_b), Whole(2))
        gross == IF SlopeGiven(side_slope_h_over_v)
                     THEN QMul(QMul(l, avg_b), d)
                     ELSE QMul(QMul(l, bb), d)
    IN  MeasureResult(gross, Hundredths(max0(deductions)), QZero)

trench_excavation(length, breadth_bottom, depth, side_slope_h_over_v, deductions, unit) ==
    to_dict(trench_excavation_mr(length, breadth_bottom, depth,
                                 side_slope_h_over_v, deductions), 3)

pit_excavation_mr(length_bottom, breadth_bottom, depth, side_slope_h_over_v) ==
    LET lb == Hundredths(max0(length_bottom))
        bb == Hundredths(max0(breadth_bottom))
        d  == Hundredths(max0(depth))
        run   == QMul(QMul(Whole(2), Hundredths(side_slope_h_over_v)), d)
        top_L == QAdd(lb, run)
        top_B == QAdd(bb, run)
        avg_L == QDiv(QAdd(lb, top_L), Whole(2))
        avg_B == QDiv(QAdd(bb, top_B), Whole(2))
        gross == IF SlopeGiven(side_slope_h_over_v)
                     THEN QMul(QMul(avg_L, avg_B), d)
                     ELSE QMul(QMul(lb, bb), d)
    IN  MeasureResult(gross, QZero, QZero)

pit_excavation(length_bottom, breadth_bottom, depth, side_slope_h_over_v, unit) ==
    to_dict(pit_excavation_mr(length_bottom, breadth_bottom, depth,
                              side_slope_h_over_v), 3)

\* backfill with the compaction allowance folded into gross.
backfill_mr_folded(length, breadth, height, compaction_factor) ==
    LET gross == QMul(QMul(Hundredths(max0(length)), Hundredths(max0(breadth))),
                      Hundredths(max0(height)))
    IN  MeasureResult(IF compaction_factor > 100
                          THEN QMul(gross, Hundredths(compaction_factor))
                          ELSE gross,
                      QZero, QZero)

backfill_mr(length, breadth, height, compaction_factor) ==
    LET gross == QMul(QMul(Hundredths(max0(length)), Hundredths(max0(breadth))),
                      Hundredths(max0(height)))
        extra == IF compaction_factor > 100
                     THEN QMul(gross, QSub(Hundredths(compaction_factor), Whole(1)))
                     ELSE QZero
    IN  MeasureResult(gross, QZero, extra)

backfill(length, breadth, height, compaction_factor, unit) ==
    to_dict(backfill_mr(length, breadth, height, compaction_factor), 3)

isolated_footing_volume_mr(L, B, D, pedestal_L, pedestal_B, pedestal_H, deductions) ==
    LET v_foot == QMul(QMul(Hundredths(max0(L)), Hundredths(max0(B))),
                       Hundredths(max0(D)))
        v_ped  == QMul(QMul(Hundredths(max0(pedestal_L)),
                            Hundredths(max0(pedestal_B))),
                       Hundredths(max0(pedestal_H)))
    IN  MeasureResult(QAdd(v_foot, v_ped), Hundredths(max0(deductions)), QZero)

isolated_footing_volume(L, B, D, pedestal_L, pedestal_B, pedestal_H, deductions, unit) ==
    to_dict(isolated_footing_volume_mr(L, B, D, pedestal_L, pedestal_B,
                                       pedestal_H, deductions), 3)

\* ------------------------------------------------------------------ masonry

\* brick_opening_deduction with the exemption boundary exclusive.
brick_opening_deduction_strict(o, thickness, small_opening_limit) ==
    LET area_one == QMul(Hundredths(o.w), Hundredths(o.h))
        n        == Hundredths(o.n)
    IN  IF QLt(area_one, Hundredths(small_opening_limit)) THEN QZero
        ELSE QMul(QMul(area_one, thickness), n)

\* What the loop body of brickwork_wall adds to ded for one opening.
brick_opening_deduction(o, thickness, small_opening_limit) ==
    LET area_one == QMul(Hundredths(o.w), Hundredths(o.h))
        n        == Hundredths(o.n)
    IN  IF QLeq(area_one, Hundredths(small_opening_limit)) THEN QZero
        ELSE QMul(QMul(area_one, thickness), n)

RECURSIVE brick_deductions(_, _, _, _)
brick_deductions(norm_openings, i, thickness, small_opening_limit) ==
    IF i > Len(norm_openings) THEN QZero
    ELSE QAdd(brick_opening_deduction(norm_openings[i], thickness,
                                      small_opening_limit),
              brick_deductions(norm_openings, i + 1, thickness,
                               small_opening_limit))

\* brickwork_wall from the point where norm_openings is in hand.
brickwork_wall_from(length, thickness, height, norm, small_opening_limit) ==
    LET t     == Hundredths(max0(thickness))
        gross == QMul(QMul(Hundredths(max0(length)), t), Hundredths(max0(height)))
    IN  IF norm.raised THEN Raised
        ELSE MeasureResult(gross,
                 brick_deductions(norm.out, 1, t, small_opening_limit), QZero)

brickwork_wall_mr(length, thickness, height, openings, small_opening_limit) ==
    brickwork_wall_from(length, thickness, height, _normalise_openings(openings),
                        small_opening_limit)

brickwork_wall(length, thickness, height, openings, small_opening_limit, unit) ==
    LET mr == brickwork_wall_mr(length, thickness, height, openings,
                                small_opening_limit)
    IN  IF IsRaised(mr) THEN Raised ELSE to_dict(mr, 3)

stone_masonry_wall(length, thickness, height, openings, small_opening_limit, unit) ==
    brickwork_wall(length, thickness, height, openings, small_opening_limit, unit)

\* ------------------------------------------------------------------ finishes

\* sides = max(int(sides), 0): the number of faces, a Python int.
EffectiveSides(sides) == IF int(sides) > 0 THEN int(sides) ELSE 0

\* wall_opening_deduction with both tier boundaries exclusive.
wall_opening_deduction_strict(o, sides, small_opening_limit, medium_opening_limit) ==
    LET A_one == QMul(Hundredths(o.w), Hundredths(o.h))
        n     == Hundredths(o.n)
    IN  IF QLt(A_one, Hundredths(small_opening_limit)) THEN QZero
        ELSE IF QLt(A_one, Hundredths(medium_opening_limit)) THEN QMul(A_one, n)
        ELSE QMul(QMul(A_one, Whole(sides)), n)

\* What the loop body of wall_finish_area adds to ded for one opening
\* (sides is the clamped int).
wall_opening_deduction(o, sides, small_opening_limit, medium_opening_limit) ==
    LET A_one == QMul(Hundredths(o.w), Hundredths(o.h))
        n     == Hundredths(o.n)
    IN  IF QLeq(A_one, Hundredths(small_opening_limit)) THEN QZero
        ELSE IF QLeq(A_one, Hundredths(medium_opening_limit)) THEN QMul(A_one, n)
        ELSE QMul(QMul(A_one, Whole(sides)), n)

RECURSIVE wall_deductions(_, _, _, _, _)
wall_deductions(norm_openings, i, sides, small_opening_limit, medium_opening_limit) ==
    IF i > Len(norm_openings) THEN QZero
    ELSE QAdd(wall_opening_deduction(norm_openings[i], sides,
                                     small_opening_limit, medium_opening_limit),
              wall_deductions(norm_openings, i + 1, sides,
                              small_opening_limit, medium_opening_limit))

wall_finish_area_mr(length, height, sides, openings, small_opening_limit, medium_opening_limit) ==
    LET s     == EffectiveSides(sides)
        gross == QMul(QMul(Hundredths(max0(length)), Hundredths(max0(height))),
                      Whole(s))
        norm  == _normalise_openings(openings)
    IN  IF norm.raised THEN Raised
        ELSE MeasureResult(gross,
                 wall_deductions(norm.out, 1, s, small_opening_limit,
                                 medium_opening_limit), QZero)

wall_finish_area(length, height, sides, openings, small_opening_limit, medium_opening_limit, unit) ==
    LET mr == wall_finish_area_mr(length, height, sides, openings,
                                  small_opening_limit, medium_opening_limit)
    IN  IF IsRaised(mr) THEN Raised ELSE to_dict(mr, 2)

\* What the loop body of ceiling_finish_area adds to ded for one opening.
ceiling_opening_deduction(o, small_opening_limit) ==
    LET A_one == QMul(Hundredths(o.w), Hundredths(o.h))
    IN  IF QLt(Hundredths(small_opening_limit), A_one)
            THEN QMul(A_one, Hundredths(o.n))
            ELSE QZero

RECURSIVE ceiling_deductions(_, _, _)
ceiling_deductions(norm_openings, i, small_opening_limit) ==
    IF i > Len(norm_openings) THEN QZero
    ELSE QAdd(ceiling_opening_deduction(norm_openings[i], small_opening_limit),
              ceiling_deductions(norm_openings, i + 1, small_opening_limit))

\* ceiling_finish_area from the point where norm_openings is in hand.
ceiling_finish_area_from(length, breadth, norm, small_opening_limit) ==
    LET gross == QMul(Hundredths(max0(length)), Hundredths(max0(breadth)))
    IN  IF norm.raised THEN Raised
        ELSE MeasureResult(gross,
                 ceiling_deductions(norm.out, 1, small_opening_limit), QZero)

ceiling_finish_area_mr(length, breadth, openings, small_opening_limit) ==
    ceiling_finish_area_from(length, breadth, _normalise_openings(openings),
                             small_opening_limit)

ceiling_finish_area(length, breadth, openings, small_opening_limit, unit) ==
    LET mr == ceiling_finish_area_mr(length, breadth, openings, small_opening_limit)
    IN  IF IsRaised(mr) THEN Raised ELSE to_dict(mr, 2)

\* ------------------------------------------------------------------ flooring

\* What the loop body of floor_area adds to ded for one cutout.
cutout_deduction(c) ==
    QMul(QMul(Hundredths(c.w), Hundredths(c.h)), Hundredths(c.n))

RECURSIVE cutout_deductions(_, _)
cutout_deductions(norm_cutouts, i) ==
    IF i > Len(norm_cutouts) THEN QZero
    ELSE QAdd(cutout_deduction(norm_cutouts[i]),
              cutout_deductions(norm_cutouts, i + 1))

\* floor_area from the point where norm_cutouts is in hand.
floor_area_from(length, breadth, norm) ==
    LET gross == QMul(Hundredths(max0(length)), Hundredths(max0(breadth)))
    IN  IF norm.raised THEN Raised
        ELSE MeasureResult(gross, cutout_deductions(norm.out, 1), QZero)

floor_area_mr(length, breadth, cutouts) ==
    floor_area_from(length, breadth, _normalise_openings(cutouts))

floor_area(length, breadth, cutouts, unit) ==
    LET mr == floor_area_mr(length, breadth, cutouts)
    IN  IF IsRaised(mr) THEN Raised ELSE to_dict(mr, 2)

\* Wastage taken on the gross area instead of the net area.
WastageBase_gross(base) == Thousandths(base.gross)

\* The quantity floor_area_with_wastage applies the wastage factor to.
WastageBase(base) == Thousandths(base.net)

floor_area_with_wastage_mr(length, breadth, wastage_factor, cutouts, unit) ==
    LET base == floor_area(length, breadth, cutouts, unit)
    IN  IF IsRaised(base) THEN Raised
        ELSE LET net_base == WastageBase(base)
                 extra == IF wastage_factor > 100
                              THEN QMul(net_base,
                                        QSub(Hundredths(wastage_factor), Whole(1)))
                              ELSE QZero
             IN  MeasureResult(Thousandths(base.gross),
                               Thousandths(base.deductions), extra)

floor_area_with_wastage(length, breadth, wastage_factor, cutouts, unit) ==
    LET mr == floor_area_with_wastage_mr(length, breadth, wastage_factor, cutouts, unit)
    IN  IF IsRaised(mr) THEN Raised ELSE to_dict(mr, 2)

\* ------------------------------------------------------------------ formwork
\* These return the bare rounded area.

formwork_column_area_raw(L, B, H) ==
    QMul(QMul(Whole(2), QAdd(Hundredths(max0(L)), Hundredths(max0(B)))),
         Hundredths(max0(H)))

formwork_column_area(L, B, H, unit) ==
    _round_for_unit(formwork_column_area_raw(L, B, H), unit)

formwork_beam_area_raw(breadth, depth, length) ==
    QMul(QAdd(QMul(Whole(2), Hundredths(max0(depth))), Hundredths(max0(breadth))),
         Hundredths(max0(length)))

formwork_beam_area(breadth, depth, length, unit) ==
    _round_for_unit(formwork_beam_area_raw(breadth, depth, length), unit)

formwork_slab_area_raw(length, breadth) ==
    QMul(Hundredths(max0(length)), Hundredths(max0(breadth)))

formwork_slab_area(length, breadth, unit) ==
    _round_for_unit(formwork_slab_area_raw(length, breadth), unit)

\* ----------------------------------------------------------------- staircase

staircase_waist_slab_volume_mr(flight_length, width, waist_thickness, landings_volume) ==
    LET v_waist == QMul(QMul(Hundredths(max0(flight_length)),
                             Hundredths(max0(width))),
                        Hundredths(max0(waist_thickness)))
    IN  MeasureResult(QAdd(v_waist, Hundredths(max0(landings_volume))),
                      QZero, QZero)

staircase_waist_slab_volume(flight_length, width, waist_thickness, landings_volume, unit) ==
    to_dict(staircase_waist_slab_volume_mr(flight_length, width,
                                           waist_thickness, landings_volume), 3)

\* ------------------------------------------------------------- reinforcement

\* The divisor of the weight-per-metre approximation dia_mm^2 / 162.
SteelDivisor == 162

\* Millimetres per metre, in steel_slab_single_layer.
MmPerM == 1000

steel_from_kg_per_cum_mr(concrete_volume_cum, kg_per_cum) ==
    MeasureResult(QMul(Hundredths(max0(concrete_volume_cum)),
                       Hundredths(max0(kg_per_cum))), QZero, QZero)

steel_from_kg_per_cum(concrete_volume_cum, kg_per_cum, unit) ==
    to_dict(steel_from_kg_per_cum_mr(concrete_volume_cum, kg_per_cum), 2)

\* The count rounded to the nearest whole number instead of truncated.
BarCount_rounded(count) == IF int(count + 50) > 0 THEN int(count + 50) ELSE 0

\* count = max(int(count), 0): the number of bars, a Python int.
BarCount(count) == IF int(count) > 0 THEN int(count) ELSE 0

steel_from_bars_mr(dia_mm, length_m, count) ==
    LET dia == max0(dia_mm)
        len == max0(length_m)
        cnt == BarCount(count)
    IN  IF dia <= 0 \/ len <= 0 \/ cnt <= 0
            THEN MeasureResult(QZero, QZero, QZero)
            ELSE LET wt_per_m == QDiv(QMul(Hundredths(dia), Hundredths(dia)),
                                      Whole(SteelDivisor))
                     total    == QMul(QMul(wt_per_m, Hundredths(len)), Whole(cnt))
                 IN  MeasureResult(total, QZero, QZero)

steel_from_bars(dia_mm, length_m, count, unit) ==
    to_dict(steel_from_bars_mr(dia_mm, length_m, count), 2)

\* The number of spaces across the width, without the closing bar.
SlabBars_spaces(slab_width, spacing_mm) ==
    LET w == max0(slab_width)
        s == IF spacing_mm > 100 THEN spacing_mm ELSE 100
    IN  (w * MmPerM) \div s

\* n_bars = int(slab_width * 1000.0 // spacing_mm) + 1, with
\* spacing_mm = max(spacing_mm, 1.0).
SlabBars(slab_width, spacing_mm) ==
    LET w == max0(slab_width)
        s == IF spacing_mm > 100 THEN spacing_mm ELSE 100
    IN  ((w * MmPerM) \div s) + 1

steel_slab_single_layer_mr(slab_length, slab_width, bar_dia_mm, spacing_mm) ==
    LET n_bars == SlabBars(slab_width, spacing_mm)
    IN  IF n_bars <= 0 THEN MeasureResult(QZero, QZero, QZero)
        ELSE steel_from_bars_mr(bar_dia_mm, max0(slab_length), n_bars * 100)

steel_slab_single_layer(slab_length, slab_width, bar_dia_mm, spacing_mm, unit) ==
    to_dict(steel_slab_single_layer_mr(slab_length, slab_width, bar_dia_mm,
                                       spacing_mm), 2)

\* ------------------------------------------------------------------- inputs
\* What callers pass, in hundredths: negative, zero, tiny (lost in rounding),
\* a rounding tie (0.15 * 0.15 = 0.0225) and ordinary sizes.

Dims == {-100, 0, 1, 15, 100, 150}
SmallDims == {-100, 0, 50}
Lengths == {-500, 0, 1, 1000}
Deds == {-100, 0, 500}
Slopes == {-50, 0, 50}
Factors == {50, 100, 103, 150}
Units == {"cum", "sqm", " KG", "rmt", "nos"}
AreaUnits == {"sqm", "CUM", "nos"}
SidesGiven == {-100, 100, 200, 250}
Counts == {-100, 0, 50, 100, 250, 1000}
Diameters == {-800, 0, 800, 1200}
Spacings == {-100, 0, 15000, 20000}

\* Openings: at and just above the masonry limit (0.10), at the finish
\* limits (0.50 and 3.00), between and above them, and entries the
\* normaliser drops or chokes on.
AtMasonryLimit == Dict(Num(50), Num(20), Absent)
OverMasonryLimit == Dict(Num(50), Num(22), Num(100))
AtSmallLimit == Dict(Num(100), Num(50), Num(200))
Door == Dict(Num(100), NumStr(210), Num(100))
AtMediumLimit == Dict(Num(150), Num(200), Num(100))
Large == Dict(Num(200), Num(200), Num(200))
HalfCount == Dict(Num(200), Num(200), Num(50))
NegativeWidth == Dict(Num(-100), Num(100), Num(100))
ZeroCount == Dict(Num(100), Num(100), Num(0))
NoHeight == Dict(Num(100), Absent, Num(100))
JunkWidth == Dict(Junk, Num(100), Num(100))
JunkCount == Dict(Num(100), Num(100), Junk)

AllEntries ==
    {AtMasonryLimit, OverMasonryLimit, AtSmallLimit, Door, AtMediumLimit, Large,
     HalfCount, NegativeWidth, ZeroCount, NoHeight, JunkWidth, JunkCount, NotADict}
MasonryEntries == {AtMasonryLimit, OverMasonryLimit, Door, NegativeWidth, JunkWidth}
FinishEntries == {AtSmallLimit, Door, AtMediumLimit, Large, NotADict, JunkCount}
CutoutEntries == {AtMasonryLimit, Door, Large, ZeroCount, JunkWidth}

\* The lists of at most MaxOpenings entries of S.
Lists(S) == UNION {[1..k -> S] : k \in 0..MaxOpenings}

\* (small_opening_limit, medium_opening_limit) pairs: the defaults, a
\* tighter pair, and a pair given in the wrong order.
FinishLimits == {<<50, 300>>, <<10, 50>>, <<300, 50>>}
MasonryLimits == {10, 11, 0}

\* ------------------------------------------------------------ state machine

\* One call at a time: its operation, arguments, unrounded quantities and
\* result.
VARIABLES pc, op, args, raw, res

\* Several callers at once, each in a call of its own: where the call
\* stands, the operation called, the caller's list object and the list the
\* caller built, the call's local norm_openings and its result; memo is one
\* remembered call.
VARIABLES cpc, cop, heap, given, cnorm, cres, memo

callVars == <<pc, op, args, raw, res>>
callerVars == <<cpc, cop, heap, given, cnorm, cres, memo>>
vars == <<pc, op, args, raw, res, cpc, cop, heap, given, cnorm, cres, memo>>

NoArgs == [unit |-> "cum"]

\* No call has returned.
NoResult == [none |-> TRUE]

\* The bare number a formwork operation returns (or computes), held in the
\* call's result slot.
Bare(x) == [area |-> x]

\* The unrounded quantities of operation o on arguments a.
ApplyRaw(o, a) ==
    CASE o = "volume" -> volume_mr(a.L, a.B, a.D, a.deductions)
      [] o = "trench_excavation" ->
             trench_excavation_mr(a.length, a.breadth_bottom, a.depth,
                                  a.side_slope_h_over_v, a.deductions)
      [] o = "pit_excavation" ->
             pit_excavation_mr(a.length_bottom, a.breadth_bottom, a.depth,
                               a.side_slope_h_over_v)
      [] o = "backfill" ->
             backfill_mr(a.length, a.breadth, a.height, a.compaction_factor)
      [] o = "isolated_footing_volume" ->
             isolated_footing_volume_mr(a.L, a.B, a.D, a.pedestal_L, a.pedestal_B,
                                        a.pedestal_H, a.deductions)
      [] o \in {"brickwork_wall", "stone_masonry_wall"} ->
             brickwork_wall_mr(a.length, a.thickness, a.height, a.openings,
                               a.small_opening_limit)
      [] o = "wall_finish_area" ->
             wall_finish_area_mr(a.length, a.height, a.sides, a.openings,
                                 a.small_opening_limit, a.medium_opening_limit)
      [] o = "ceiling_finish_area" ->
             ceiling_finish_area_mr(a.length, a.breadth, a.openings,
                                    a.small_opening_limit)
      [] o = "floor_area" -> floor_area_mr(a.length, a.breadth, a.cutouts)
      [] o = "floor_area_with_wastage" ->
             floor_area_with_wastage_mr(a.length, a.breadth, a.wastage_factor,
                                        a.cutouts, a.unit)
      [] o = "formwork_column_area" -> Bare(formwork_column_area_raw(a.L, a.B, a.H))
      [] o = "formwork_beam_area" ->
             Bare(formwork_beam_area_raw(a.breadth, a.depth, a.length))
      [] o = "formwork_slab_area" -> Bare(formwork_slab_area_raw(a.length, a.breadth))
      [] o = "staircase_waist_slab_volume" ->
             staircase_waist_slab_volume_mr(a.flight_length, a.width,
                                            a.waist_thickness, a.landings_volume)
      [] o = "steel_from_kg_per_cum" ->
             steel_from_kg_per_cum_mr(a.concrete_volume_cum, a.kg_per_cum)
      [] o = "steel_from_bars" ->
             steel_from_bars_mr(a.dia_mm, a.length_m, a.count)
      [] o = "steel_slab_single_layer" ->
             steel_slab_single_layer_mr(a.slab_length, a.slab_width, a.bar_dia_mm,
                                        a.spacing_mm)
      [] OTHER -> NoResult

\* What operation o returns on arguments a.
Apply(o, a) ==
    CASE o = "volume" -> volume(a.L, a.B, a.D, a.deductions, a.unit)
      [] o = "trench_excavation" ->
             trench_excavation(a.length, a.breadth_bottom, a.depth,
                               a.side_slope_h_over_v, a.deductions, a.unit)
      [] o = "pit_excavation" ->
             pit_excavation(a.length_bottom, a.breadth_bottom, a.depth,
                            a.side_slope_h_over_v, a.unit)
      [] o = "backfill" ->
             backfill(a.length, a.breadth, a.height, a.compaction_factor, a.unit)
      [] o = "isolated_footing_volume" ->
             isolated_footing_volume(a.L, a.B, a.D, a.pedestal_L, a.pedestal_B,
                                     a.pedestal_H, a.deductions, a.unit)
      [] o = "brickwork_wall" ->
             brickwork_wall(a.length, a.thickness, a.height, a.openings,
                            a.small_opening_limit, a.unit)
      [] o = "stone_masonry_wall" ->
             stone_masonry_wall(a.length, a.thickness, a.height, a.openings,
                                a.small_opening_limit, a.unit)
      [] o = "wall_finish_area" ->
             wall_finish_area(a.length, a.height, a.sides, a.openings,
                              a.small_opening_limit, a.medium_opening_limit, a.unit)
      [] o = "ceiling_finish_area" ->
             ceiling_finish_area(a.length, a.breadth, a.openings,
                                 a.small_opening_limit, a.unit)
      [] o = "floor_area" -> floor_area(a.length, a.breadth, a.cutouts, a.unit)
      [] o = "floor_area_with_wastage" ->
             floor_area_with_wastage(a.length, a.breadth, a.wastage_factor,
                                     a.cutouts, a.unit)
      [] o = "formwork_column_area" -> Bare(formwork_column_area(a.L, a.B, a.H, a.unit))
      [] o = "formwork_beam_area" ->
             Bare(formwork_beam_area(a.breadth, a.depth, a.length, a.unit))
      [] o = "formwork_slab_area" -> Bare(formwork_slab_area(a.length, a.breadth, a.unit))
      [] o = "staircase_waist_slab_volume" ->
             staircase_waist_slab_volume(a.flight_length, a.width,
                                         a.waist_thickness, a.landings_volume,
                                         a.unit)
      [] o = "steel_from_kg_per_cum" ->
             steel_from_kg_per_cum(a.concrete_volume_cum, a.kg_per_cum, a.unit)
      [] o = "steel_from_bars" ->
             steel_from_bars(a.dia_mm, a.length_m, a.count, a.unit)
      [] o = "steel_slab_single_layer" ->
             steel_slab_single_layer(a.slab_length, a.slab_width, a.bar_dia_mm,
                                     a.spacing_mm, a.unit)
      [] o = "_normalise_openings" -> _normalise_openings(a.openings)
      [] OTHER -> NoResult

\* How many callers use the engine at once.
NumCallers == 2

Callers == 1..NumCallers

\* The operations the concurrent callers call, and the lists they pass.
CallerOps == {"brickwork_wall", "floor_area"}
CallerLists == {<<Door>>, <<NegativeWidth, Large>>, <<JunkWidth>>}

NoNorm == [raised |-> FALSE, out |-> <<>>]

Init ==
    /\ pc = "idle"
    /\ op = "none"
    /\ args = NoArgs
    /\ raw = NoResult
    /\ res = NoResult
    /\ cpc = [c \in Callers |-> "idle"]
    /\ cop = [c \in Callers |-> "none"]
    /\ heap = [c \in Callers |-> <<>>]
    /\ given = [c \in Callers |-> <<>>]
    /\ cnorm = [c \in Callers |-> NoNorm]
    /\ cres = [c \in Callers |-> NoResult]
    /\ memo = NoResult

\* A caller invokes operation o on arguments a; the call computes the
\* unrounded quantities mr and returns result.
Invoke(o, a, mr, result) ==
    /\ pc' = "done"
    /\ op' = o
    /\ args' = a
    /\ raw' = mr
    /\ res' = result
    /\ UNCHANGED callerVars

NormaliseCall ==
    /\ pc = "idle"
    /\ \E a \in [openings : Lists(AllEntries)] :
        Invoke("_normalise_openings", a,
               NoResult,
               _normalise_openings(a.openings))

VolumeCall ==
    /\ pc = "idle"
    /\ \E a \in [L : Dims, B : Dims, D : Dims, deductions : Deds, unit : Units] :
        Invoke("volume", a,
               volume_mr(a.L, a.B, a.D, a.deductions),
               volume(a.L, a.B, a.D, a.deductions, a.unit))

TrenchCall ==
    /\ pc = "idle"
    /\ \E a \in [length : Lengths, breadth_bottom : Dims, depth : Dims,
              side_slope_h_over_v : Slopes, deductions : Deds, unit : AreaUnits] :
        Invoke("trench_excavation", a,
               trench_excavation_mr(a.length, a.breadth_bottom, a.depth, a.side_slope_h_over_v, a.deductions),
               trench_excavation(a.length, a.breadth_bottom, a.depth, a.side_slope_h_over_v, a.deductions, a.unit))

PitCall ==
    /\ pc = "idle"
    /\ \E a \in [length_bottom : Dims, breadth_bottom : Dims, depth : Dims,
              side_slope_h_over_v : Slopes, unit : Units] :
        Invoke("pit_excavation", a,
               pit_excavation_mr(a.length_bottom, a.breadth_bottom, a.depth, a.side_slope_h_over_v),
               pit_excavation(a.length_bottom, a.breadth_bottom, a.depth, a.side_slope_h_over_v, a.unit))

BackfillCall ==
    /\ pc = "idle"
    /\ \E a \in [length : Dims, breadth : Dims, height : Dims,
              compaction_factor : Factors, unit : Units] :
        Invoke("backfill", a,
               backfill_mr(a.length, a.breadth, a.height, a.compaction_factor),
               backfill(a.length, a.breadth, a.height, a.compaction_factor, a.unit))

FootingCall ==
    /\ pc = "idle"
    /\ \E a \in [L : Dims, B : {-100, 50}, D : {-100, 50}, pedestal_L : SmallDims,
              pedestal_B : SmallDims, pedestal_H : SmallDims, deductions : Deds,
              unit : AreaUnits] :
        Invoke("isolated_footing_volume", a,
               isolated_footing_volume_mr(a.L, a.B, a.D, a.pedestal_L, a.pedestal_B, a.pedestal_H, a.deductions),
               isolated_footing_volume(a.L, a.B, a.D, a.pedestal_L, a.pedestal_B, a.pedestal_H, a.deductions, a.unit))

BrickworkCall ==
    /\ pc = "idle"
    /\ \E a \in [length : {-500, 500}, thickness : {-23, 0, 23}, height : {-300, 300},
              openings : Lists(MasonryEntries),
              small_opening_limit : MasonryLimits, unit : AreaUnits] :
        Invoke("brickwork_wall", a,
               brickwork_wall_mr(a.length, a.thickness, a.height, a.openings, a.small_opening_limit),
               brickwork_wall(a.length, a.thickness, a.height, a.openings, a.small_opening_limit, a.unit))

StoneCall ==
    /\ pc = "idle"
    /\ \E a \in [length : {-500, 500}, thickness : {-23, 0, 23}, height : {-300, 300},
              openings : Lists(MasonryEntries),
              small_opening_limit : MasonryLimits, unit : AreaUnits] :
        Invoke("stone_masonry_wall", a,
               brickwork_wall_mr(a.length, a.thickness, a.height, a.openings, a.small_opening_limit),
               stone_masonry_wall(a.length, a.thickness, a.height, a.openings, a.small_opening_limit, a.unit))

WallFinishCall ==
    /\ pc = "idle"
    /\ \E b \in [length : {-500, 50, 500}, height : {-300, 25, 300},
              sides : SidesGiven, openings : Lists(FinishEntries),
              limits : FinishLimits, unit : AreaUnits] :
        LET a == [length |-> b.length, height |-> b.height, sides |-> b.sides,
                  openings |-> b.openings, small_opening_limit |-> b.limits[1],
                  medium_opening_limit |-> b.limits[2], unit |-> b.unit]
        IN  Invoke("wall_finish_area", a,
               wall_finish_area_mr(a.length, a.height, a.sides, a.openings, a.small_opening_limit, a.medium_opening_limit),
               wall_finish_area(a.length, a.height, a.sides, a.openings, a.small_opening_limit, a.medium_opening_limit, a.unit))

CeilingCall ==
    /\ pc = "idle"
    /\ \E a \in [length : {-500, 50, 500}, breadth : {-300, 25, 300},
              openings : Lists(FinishEntries), small_opening_limit : {50, 300},
              unit : AreaUnits] :
        Invoke("ceiling_finish_area", a,
               ceiling_finish_area_mr(a.length, a.breadth, a.openings, a.small_opening_limit),
               ceiling_finish_area(a.length, a.breadth, a.openings, a.small_opening_limit, a.unit))

FloorCall ==
    /\ pc = "idle"
    /\ \E a \in [length : {-400, 0, 15, 400}, breadth : {-300, 15, 300},
              cutouts : Lists(CutoutEntries), unit : AreaUnits] :
        Invoke("floor_area", a,
               floor_area_mr(a.length, a.breadth, a.cutouts),
               floor_area(a.length, a.breadth, a.cutouts, a.unit))

FloorWastageCall ==
    /\ pc = "idle"
    /\ \E a \in [length : {-400, 0, 15, 400}, breadth : {-300, 15, 300},
              wastage_factor : Factors, cutouts : Lists(CutoutEntries),
              unit : AreaUnits] :
        Invoke("floor_area_with_wastage", a,
               floor_area_with_wastage_mr(a.length, a.breadth, a.wastage_factor, a.cutouts, a.unit),
               floor_area_with_wastage(a.length, a.breadth, a.wastage_factor, a.cutouts, a.unit))

FormworkColumnCall ==
    /\ pc = "idle"
    /\ \E a \in [L : Dims, B : Dims, H : Dims, unit : Units] :
        Invoke("formwork_column_area", a,
               Bare(formwork_column_area_raw(a.L, a.B, a.H)),
               Bare(formwork_column_area(a.L, a.B, a.H, a.unit)))

FormworkBeamCall ==
    /\ pc = "idle"
    /\ \E a \in [breadth : Dims, depth : Dims, length : Dims, unit : Units] :
        Invoke("formwork_beam_area", a,
               Bare(formwork_beam_area_raw(a.breadth, a.depth, a.length)),
               Bare(formwork_beam_area(a.breadth, a.depth, a.length, a.unit)))

FormworkSlabCall ==
    /\ pc = "idle"
    /\ \E a \in [length : Dims, breadth : Dims, unit : Units] :
        Invoke("formwork_slab_area", a,
               Bare(formwork_slab_area_raw(a.length, a.breadth)),
               Bare(formwork_slab_area(a.length, a.breadth, a.unit)))

StaircaseCall ==
    /\ pc = "idle"
    /\ \E a \in [flight_length : Dims, width : Dims, waist_thickness : Dims,
              landings_volume : Deds, unit : Units] :
        Invoke("staircase_waist_slab_volume", a,
               staircase_waist_slab_volume_mr(a.flight_length, a.width, a.waist_thickness, a.landings_volume),
               staircase_waist_slab_volume(a.flight_length, a.width, a.waist_thickness, a.landings_volume, a.unit))

SteelDensityCall ==
    /\ pc = "idle"
    /\ \E a \in [concrete_volume_cum : Dims, kg_per_cum : {-100, 0, 7850, 12345},
              unit : Units] :
        Invoke("steel_from_kg_per_cum", a,
               steel_from_kg_per_cum_mr(a.concrete_volume_cum, a.kg_per_cum),
               steel_from_kg_per_cum(a.concrete_volume_cum, a.kg_per_cum, a.unit))

SteelBarsCall ==
    /\ pc = "idle"
    /\ \E a \in [dia_mm : Diameters, length_m : {-600, 0, 1, 600}, count : Counts,
              unit : Units] :
        Invoke("steel_from_bars", a,
               steel_from_bars_mr(a.dia_mm, a.length_m, a.count),
               steel_from_bars(a.dia_mm, a.length_m, a.count, a.unit))

SteelSlabCall ==
    /\ pc = "idle"
    /\ \E a \in [slab_length : {-400, 0, 400}, slab_width : {-300, 0, 1, 300},
              bar_dia_mm : Diameters, spacing_mm : Spacings, unit : Units] :
        Invoke("steel_slab_single_layer", a,
               steel_slab_single_layer_mr(a.slab_length, a.slab_width, a.bar_dia_mm, a.spacing_mm),
               steel_slab_single_layer(a.slab_length, a.slab_width, a.bar_dia_mm, a.spacing_mm, a.unit))

\* The caller takes the result; the engine keeps nothing of the call.
Return ==
    /\ pc = "done"
    /\ pc' = "idle"
    /\ op' = "none"
    /\ args' = NoArgs
    /\ raw' = NoResult
    /\ res' = NoResult
    /\ UNCHANGED callerVars

Next ==
    \/ NormaliseCall
    \/ VolumeCall
    \/ TrenchCall
    \/ PitCall
    \/ BackfillCall
    \/ FootingCall
    \/ BrickworkCall
    \/ StoneCall
    \/ WallFinishCall
    \/ CeilingCall
    \/ FloorCall
    \/ FloorWastageCall
    \/ FormworkColumnCall
    \/ FormworkBeamCall
    \/ FormworkSlabCall
    \/ StaircaseCall
    \/ SteelDensityCall
    \/ SteelBarsCall
    \/ SteelSlabCall
    \/ Return

Spec == Init /\ [][Next]_vars

\* ------------------------------------------------------- concurrent callers

\* Caller c builds a list and calls operation o with it.
CallerBegins(c) ==
    /\ cpc[c] = "idle"
    /\ \E o \in CallerOps, l \in CallerLists :
        /\ cop' = [cop EXCEPT ![c] = o]
        /\ heap' = [heap EXCEPT ![c] = l]
        /\ given' = [given EXCEPT ![c] = l]
    /\ cpc' = [cpc EXCEPT ![c] = "called"]
    /\ cnorm' = [cnorm EXCEPT ![c] = NoNorm]
    /\ cres' = [cres EXCEPT ![c] = NoResult]
    /\ UNCHANGED <<memo, callVars>>

\* Caller c repeats its last call, passing the same list object again; it
\* still holds the result of the call before.
CallerCallsAgain(c) ==
    /\ cpc[c] = "idle"
    /\ cop[c] # "none"
    /\ cpc' = [cpc EXCEPT ![c] = "called"]
    /\ cnorm' = [cnorm EXCEPT ![c] = NoNorm]
    /\ UNCHANGED <<cop, heap, given, cres, memo, callVars>>

\* The call of caller c runs _normalise_openings over the caller's list.
Normalises(c) ==
    /\ cpc[c] = "called"
    /\ cnorm' = [cnorm EXCEPT ![c] = _normalise_openings(heap[c])]
    /\ heap' = [heap EXCEPT ![c] = ListAfterNormalise(heap[c])]
    /\ cpc' = [cpc EXCEPT ![c] = "normalised"]
    /\ UNCHANGED <<cop, given, cres, memo, callVars>>

\* The rest of the operation, from its local norm_openings.
ResultFrom(o, norm) ==
    LET mr == IF o = "brickwork_wall"
              THEN brickwork_wall_from(500, 23, 300, norm, 10)
              ELSE floor_area_from(400, 300, norm)
    IN  IF IsRaised(mr) THEN Raised
        ELSE to_dict(mr, IF o = "brickwork_wall" THEN 3 ELSE 2)

\* The call of caller c computes its record (or raises).
Computes(c) ==
    /\ cpc[c] = "normalised"
    /\ cres' = [cres EXCEPT ![c] = ResultFrom(cop[c], cnorm[c])]
    /\ cpc' = [cpc EXCEPT ![c] = "returned"]
    /\ UNCHANGED <<cop, heap, given, cnorm, memo, callVars>>

\* The call returns to caller c; the call and its result may be remembered.
Returns(c) ==
    /\ cpc[c] = "returned"
    /\ cpc' = [cpc EXCEPT ![c] = "idle"]
    /\ \/ memo' = memo
       \/ /\ memo = NoResult
          /\ memo' = [o |-> cop[c], list |-> given[c], result |-> cres[c]]
    /\ UNCHANGED <<cop, heap, given, cnorm, cres, callVars>>

NextCallers ==
    \E c \in Callers :
        \/ CallerBegins(c)
        \/ CallerCallsAgain(c)
        \/ Normalises(c)
        \/ Computes(c)
        \/ Returns(c)

SpecCallers == Init /\ [][NextCallers]_vars

\* =================================================================== claims

\* The operations that return a gross/deductions/additions/net record.
RecordOps ==
    {"volume", "trench_excavation", "pit_excavation", "backfill",
     "isolated_footing_volume", "brickwork_wall", "stone_masonry_wall",
     "wall_finish_area", "ceiling_finish_area", "floor_area",
     "floor_area_with_wastage", "staircase_waist_slab_volume",
     "steel_from_kg_per_cum", "steel_from_bars", "steel_slab_single_layer"}

FormworkOps == {"formwork_column_area", "formwork_beam_area", "formwork_slab_area"}

\* A record-returning operation has returned its record.
ReturnedRecord == pc = "done" /\ op \in RecordOps /\ ~IsRaised(res)

Max(x, y) == IF x >= y THEN x ELSE y

\* The sum of f[i] over i in 1..n.
RECURSIVE SumTo(_, _)
SumTo(f, n) == IF n = 0 THEN 0 ELSE f[n] + SumTo(f, n - 1)

\* ---- C1
\* C1: every returned record has net >= 0 and
\* net = max(gross - deductions + additions, 0) on its own values, also
\* when the deductions exceed the gross.
C1_NetClamped ==
    ReturnedRecord =>
        /\ res.net >= 0
        /\ res.net = Max(res.gross - res.deductions + res.additions, 0)

\* An opening deduction larger than the wall's gross area, net held at 0.
C1_Witness ==
    /\ ReturnedRecord
    /\ op = "wall_finish_area"
    /\ res.gross > 0
    /\ res.deductions > res.gross
    /\ res.net = 0

\* ---- C2
\* The deduction the three tiers give one normalised opening, in units of
\* 10^-6 sqm (w, h, n in hundredths; small, medium in hundredths of a sqm).
C2_TierDeduction(o, sides, small, medium) ==
    LET A_one == o.w * o.h
    IN  CASE A_one <= small * 100 -> 0
          [] small * 100 < A_one /\ A_one <= medium * 100 -> A_one * o.n
          [] A_one > medium * 100 -> A_one * sides * o.n

C2_Expected(openings, sides, small, medium) ==
    LET norm == _normalise_openings(openings).out
        each == [i \in 1..Len(norm) |-> C2_TierDeduction(norm[i], sides, small, medium)]
    IN  round(Q(SumTo(each, Len(norm)), 1000000), 2)

\* C2: wall_finish_area deducts nothing for an opening of one-face area
\* <= small_opening_limit, area * count for one in (small, medium], and
\* area * sides * count above medium_opening_limit; the record's deductions
\* is the sum over the normalised openings (for small <= medium, where the
\* three tiers are disjoint).
C2_WallFinishTiers ==
    (/\ ReturnedRecord
     /\ op = "wall_finish_area"
     /\ args.small_opening_limit <= args.medium_opening_limit)
    => res.deductions =
           C2_Expected(args.openings, EffectiveSides(args.sides),
                       args.small_opening_limit, args.medium_opening_limit)

\* Two faces, one opening exactly at each limit: the first deducts nothing
\* and the second one face only (3.00 sqm).
C2_Witness ==
    /\ ReturnedRecord
    /\ op = "wall_finish_area"
    /\ args.openings = <<AtSmallLimit, AtMediumLimit>>
    /\ args.small_opening_limit = 50
    /\ args.medium_opening_limit = 300
    /\ args.sides = 200
    /\ res.deductions = 3000

\* ---- C3
\* The masonry deduction of one normalised opening, in units of 10^-8 cum.
C3_OpeningDeduction(o, thickness, small) ==
    IF o.w * o.h <= small * 100 THEN 0 ELSE o.w * o.h * thickness * o.n

C3_ExpectedDeductions(openings, thickness, small) ==
    LET norm == _normalise_openings(openings).out
        each == [i \in 1..Len(norm) |-> C3_OpeningDeduction(norm[i], thickness, small)]
    IN  round(Q(SumTo(each, Len(norm)), 100000000), 3)

\* C3: brickwork_wall has gross = length * thickness * height, deducts
\* nothing for an opening of area <= small_opening_limit and
\* area * thickness * count for a larger one; stone_masonry_wall returns
\* what brickwork_wall returns for the same arguments.
C3_MasonryOpenings ==
    (ReturnedRecord /\ op \in {"brickwork_wall", "stone_masonry_wall"}) =>
        /\ res.gross = round(Q(Max(args.length, 0) * Max(args.thickness, 0)
                               * Max(args.height, 0), 1000000), 3)
        /\ res.deductions =
               C3_ExpectedDeductions(args.openings, Max(args.thickness, 0),
                                     args.small_opening_limit)
        /\ op = "stone_masonry_wall" =>
               res = brickwork_wall(args.length, args.thickness, args.height,
                                    args.openings, args.small_opening_limit,
                                    args.unit)

\* One opening exactly at the limit (0.10 sqm) and one just above it
\* (0.11 sqm) in a 0.23 m wall: only the second is deducted, 0.0253 cum.
C3_Witness ==
    /\ ReturnedRecord
    /\ op = "stone_masonry_wall"
    /\ args.openings = <<AtMasonryLimit, OverMasonryLimit>>
    /\ args.small_opening_limit = 10
    /\ args.thickness = 23
    /\ res.deductions = 25

\* ---- C4
\* A field of an entry that the claim counts as well-formed and positive.
C4_Positive(field, default) ==
    CASE field.t = "absent" -> default > 0
      [] field.t \in {"num", "numstr"} -> field.v > 0
      [] OTHER -> FALSE

C4_Survives(o) ==
    o.isdict /\ C4_Positive(o.w, 0) /\ C4_Positive(o.h, 0) /\ C4_Positive(o.n, 100)

C4_Value(field, default) == IF field.t = "absent" THEN default ELSE field.v

\* The surviving entries of the input, in the input's order.
C4_Survivors(openings) ==
    LET keep == SelectSeq(openings, C4_Survives)
    IN  [i \in 1..Len(keep) |->
            [w |-> C4_Value(keep[i].w, 0), h |-> C4_Value(keep[i].h, 0),
             n |-> C4_Value(keep[i].n, 100)]]

\* C4: _normalise_openings never raises: entries that are no mapping, lack
\* fields, or hold malformed (also uncoercible) or non-positive values are
\* dropped, and the others come out in the input's order.
C4_NormaliseNeverRaises ==
    (pc = "done" /\ op = "_normalise_openings") =>
        /\ ~res.raised
        /\ res.out = C4_Survivors(args.openings)

\* ---- C5
\* C5: every visible value of a formula's result is rounded to the decimal
\* places its unit argument selects (2 for linear, area and weight tags, 3
\* for volume tags and for unrecognised ones).
C5_RoundedForUnit ==
    /\ ReturnedRecord =>
           LET places == UnitPlaces(args.unit)
           IN  /\ res.gross = round(raw.gross, places)
               /\ res.deductions = round(raw.deductions, places)
               /\ res.additions = round(raw.additions, places)
               /\ res.net = round(Thousandths(Max(res.gross - res.deductions
                                                  + res.additions, 0)), places)
    /\ (pc = "done" /\ op \in FormworkOps) =>
           res.area = round(raw.area, UnitPlaces(args.unit))

\* ---- C6
\* The length / breadth / depth / height / thickness arguments.
DimensionArgs ==
    {"L", "B", "D", "H", "length", "breadth", "depth", "height", "thickness",
     "length_bottom", "breadth_bottom", "pedestal_L", "pedestal_B", "pedestal_H",
     "flight_length", "width", "waist_thickness", "slab_length", "slab_width",
     "length_m"}

\* The arguments a with every negative dimension replaced by 0.
NegativesZeroed(a) ==
    [k \in DOMAIN a |->
        IF k \in DimensionArgs THEN (IF a[k] < 0 THEN 0 ELSE a[k]) ELSE a[k]]

HasNegativeDimension(a) == \E k \in DOMAIN a \cap DimensionArgs : a[k] < 0

\* The opening / cutout list among the arguments a, if any.
OpeningsOf(a) ==
    IF "openings" \in DOMAIN a THEN a.openings
    ELSE IF "cutouts" \in DOMAIN a THEN a.cutouts
    ELSE <<>>

HasJunkField(openings) ==
    \E i \in 1..Len(openings) :
        openings[i].isdict /\ Junk \in {openings[i].w, openings[i].h, openings[i].n}

\* C6: a formula called with negative dimensions returns exactly what it
\* returns with those dimensions at 0, and no call fails on account of a
\* negative or zero number (a call fails only on an opening field that is
\* no number).
C6_NegativeIsZero ==
    (pc = "done" /\ op \in RecordOps \cup FormworkOps) =>
        /\ res = Apply(op, NegativesZeroed(args))
        /\ (op \in RecordOps /\ IsRaised(res)) => HasJunkField(OpeningsOf(args))

\* volume(-1, 1.5, 1.5): a negative length with positive breadth and
\* depth measures to zero.
C6_Witness ==
    /\ pc = "done"
    /\ op = "volume"
    /\ args.L < 0 /\ args.B > 0 /\ args.D > 0
    /\ res.gross = 0
    /\ res = volume(0, args.B, args.D, args.deductions, args.unit)

\* ---- C7
TrenchDone == pc = "done" /\ op = "trench_excavation"

\* The clamped trench dimensions as numbers.
TrenchL == Hundredths(Max(args.length, 0))
TrenchB == Hundredths(Max(args.breadth_bottom, 0))
TrenchD == Hundredths(Max(args.depth, 0))

\* length * ((bb + (bb + 2 * slope * depth)) / 2) * depth
TrapezoidalGross ==
    LET top == QAdd(TrenchB, QMul(QMul(Whole(2), Hundredths(args.side_slope_h_over_v)), TrenchD))
    IN  QMul(QMul(TrenchL, QDiv(QAdd(TrenchB, top), Whole(2))), TrenchD)

PrismaticGross == QMul(QMul(TrenchL, TrenchB), TrenchD)

\* What the same call returns with slope 0.
VerticalSided ==
    trench_excavation(args.length, args.breadth_bottom, args.depth, 0,
                      args.deductions, args.unit)

\* The formulas of the two modes, as the claim and its amendment share them.
TrenchModes ==
    /\ args.side_slope_h_over_v > 0 => res.gross = round(TrapezoidalGross, 3)
    /\ args.side_slope_h_over_v <= 0 => res.gross = round(PrismaticGross, 3)

\* C7 as stated: with a positive slope, length > 0 and depth > 0 the
\* returned gross is strictly greater than the one returned for slope 0.
C7_StrictlyGreaterReturned ==
    TrenchDone =>
        /\ TrenchModes
        /\ (args.side_slope_h_over_v > 0 /\ args.length > 0 /\ args.depth > 0)
               => res.gross > VerticalSided.gross

\* C7 as amended: with a positive slope, length > 0 and depth > 0 the
\* unrounded gross is strictly greater than the prismatic one; the returned
\* gross (3 decimals) is never smaller than the one returned for slope 0,
\* and strictly greater when the unrounded difference exceeds 0.001.
C7_TrenchDualMode ==
    TrenchDone =>
        /\ TrenchModes
        /\ (args.side_slope_h_over_v > 0 /\ args.length > 0 /\ args.depth > 0) =>
               /\ QLt(PrismaticGross, raw.gross)
               /\ res.gross >= VerticalSided.gross
               /\ QLt(Thousandths(1), QSub(raw.gross, PrismaticGross))
                      => res.gross > VerticalSided.gross

\* trench_excavation(10, 1, 1.5, 0.5): 26.25 against 15.0 for slope 0.
C7_Witness ==
    /\ TrenchDone
    /\ args.length = 1000 /\ args.breadth_bottom = 100 /\ args.depth = 150
    /\ args.side_slope_h_over_v = 50
    /\ res.gross = 26250
    /\ VerticalSided.gross = 15000

\* ---- C8
WastageDone == ReturnedRecord /\ op = "floor_area_with_wastage"

\* floor_area on the same length, breadth and cutouts.
FloorBase == floor_area(args.length, args.breadth, args.cutouts, args.unit)

\* The full deduction of every normalised cutout, in units of 10^-6 sqm.
C8_CutoutSum(cutouts) ==
    LET norm == _normalise_openings(cutouts).out
        each == [i \in 1..Len(norm) |-> norm[i].w * norm[i].h * norm[i].n]
    IN  Q(SumTo(each, Len(norm)), 1000000)

\* C8: floor_area_with_wastage has floor_area's gross and deductions (every
\* cutout deducted in full); with factor 1.0 additions = 0 and net is
\* floor_area's net; with a factor > 1 additions = floor_area's net *
\* (factor - 1): wastage on the net area, not on the gross.
C8_WastageOnNet ==
    WastageDone =>
        /\ res.gross = FloorBase.gross
        /\ res.deductions = FloorBase.deductions
        /\ res.deductions = round(C8_CutoutSum(args.cutouts), 2)
        /\ args.wastage_factor = 100 =>
               (res.additions = 0 /\ res.net = FloorBase.net)
        /\ args.wastage_factor > 100 =>
               res.additions =
                   round(QMul(Thousandths(FloorBase.net),
                              QSub(Hundredths(args.wastage_factor), Whole(1))), 2)

\* 4 x 3 floor, one 1.0 x 2.1 cutout, factor 1.5: net area 9.9, wastage
\* 4.95 (it would be 6.0 on the gross).
C8_Witness ==
    /\ WastageDone
    /\ args.length = 400 /\ args.breadth = 300
    /\ args.cutouts = <<Door>>
    /\ args.wastage_factor = 150
    /\ FloorBase.net = 9900
    /\ res.additions = 4950

\* ---- C9
BarsDone == pc = "done" /\ op = "steel_from_bars"

ZeroRecord == [gross |-> 0, deductions |-> 0, additions |-> 0, net |-> 0]

\* (dia_mm^2 / 162) * length_m * count rounded to 2 decimals, for count
\* a number (not in hundredths).
C9_Weight(dia_mm, length_m, count) ==
    round(QMul(QMul(QDiv(QMul(Hundredths(dia_mm), Hundredths(dia_mm)), Whole(162)),
                    Hundredths(length_m)), count), 2)

C9_ZeroWhenNonPositive ==
    (args.dia_mm <= 0 \/ args.length_m <= 0 \/ args.count <= 0) => res = ZeroRecord

\* C9 as stated: zero record when dia_mm, length_m or count is
\* non-positive; otherwise gross = net = (dia_mm^2 / 162) * length_m * count
\* rounded to 2 decimals.
C9_WeightOfCount ==
    BarsDone =>
        /\ C9_ZeroWhenNonPositive
        /\ (args.dia_mm > 0 /\ args.length_m > 0 /\ args.count > 0) =>
               /\ res.gross = C9_Weight(args.dia_mm, args.length_m, Hundredths(args.count))
               /\ res.net = res.gross

\* C9 as amended: zero record when dia_mm, length_m or count is
\* non-positive; otherwise gross = net = (dia_mm^2 / 162) * length_m * k
\* rounded to 2 decimals, where k is count truncated to a whole number
\* (k = count for a whole count, and the zero record for 0 < count < 1);
\* deductions and additions are 0.
C9_WeightOfWholeCount ==
    BarsDone =>
        /\ C9_ZeroWhenNonPositive
        /\ (args.dia_mm > 0 /\ args.length_m > 0 /\ args.count > 0) =>
               /\ res.gross = C9_Weight(args.dia_mm, args.length_m, Whole(args.count \div 100))
               /\ res.net = res.gross
               /\ res.deductions = 0 /\ res.additions = 0
               /\ args.count % 100 = 0 =>
                      res.gross = C9_Weight(args.dia_mm, args.length_m, Hundredths(args.count))
               /\ args.count < 100 => res = ZeroRecord

\* steel_from_bars(12, 6, 10) = 53.33 kg.
C9_Witness ==
    /\ BarsDone
    /\ args.dia_mm = 1200 /\ args.length_m = 600 /\ args.count = 1000
    /\ res.gross = 53330 /\ res.net = 53330

\* ---- C10
\* The remembered call is the call caller c has just got its result from.
SameCallAsMemo(c) ==
    /\ memo # NoResult
    /\ cpc[c] = "returned"
    /\ memo.o = cop[c]
    /\ memo.list = given[c]

NormaliseDone == pc = "done" /\ op = "_normalise_openings"

\* C11: every opening in a sequence _normalise_openings produces has
\* width > 0, height > 0 and a count of at least 1 (1.00 is 100
\* hundredths), the count being 1 where the entry gave none.
C11_WellFormedOpenings ==
    (NormaliseDone /\ ~res.raised) =>
        \A i \in 1..Len(res.out) :
            /\ res.out[i].w > 0
            /\ res.out[i].h > 0
            /\ res.out[i].n >= 100

\* ---- C12
BackfillDone == pc = "done" /\ op = "backfill"

\* length * breadth * height over the clamped dimensions.
C12_Gross ==
    QMul(QMul(Hundredths(Max(args.length, 0)), Hundredths(Max(args.breadth, 0))),
         Hundredths(Max(args.height, 0)))

\* C12: backfill's gross is length * breadth * height (clamped dimensions,
\* 3 decimals) whatever the compaction factor, its deductions are 0, a
\* factor above 1 gives additions = gross * (factor - 1) and
\* net = gross + additions, and a factor of at most 1 gives additions = 0
\* and net = gross.
C12_CompactionIsAddition ==
    BackfillDone =>
        /\ raw.gross = C12_Gross
        /\ res.gross = round(C12_Gross, 3)
        /\ \A f \in Factors :
               backfill(args.length, args.breadth, args.height, f, args.unit).gross
                   = res.gross
        /\ res.deductions = 0
        /\ args.compaction_factor > 100 =>
               /\ raw.additions =
                      QMul(C12_Gross, QSub(Hundredths(args.compaction_factor), Whole(1)))
               /\ res.additions = round(raw.additions, 3)
               /\ res.net = res.gross + res.additions
        /\ args.compaction_factor <= 100 =>
               /\ res.additions = 0
               /\ res.net = res.gross

\* A backfill with a compaction factor above 1 that added material.
C12_Witness ==
    /\ BackfillDone
    /\ args.compaction_factor > 100
    /\ res.additions > 0
    /\ res.net > res.gross

\* ---- C13
SlabDone == pc = "done" /\ op = "steel_slab_single_layer"

\* floor(slab_width * 1000 / max(spacing_mm, 1)) + 1 of the call.
C13_Bars ==
    (Max(args.slab_width, 0) * 1000) \div Max(args.spacing_mm, 100) + 1

====
